---- MODULE Spec2Model ----
(***************************************************************************)
(* Transaction posting of the TRMS mock service (src/trms.py) over the     *)
(* accounts and transactions tables (src/account.py).                      *)
(*                                                                         *)
(* Money is counted in whole cents.  Every request handler runs in its own *)
(* database session: it reads rows with Account.query.get, computes the    *)
(* new balances in Python on the values it read, and db.session.commit()   *)
(* writes the changed columns and inserts the new row in one database      *)
(* transaction.  Handlers of different requests interleave between their   *)
(* database accesses.                                                      *)
(***************************************************************************)
EXTENDS Integers, Sequences, FiniteSets

\* ---------------------------------------------------------------- bounds
NumWorkers == 2      \* request handlers in a run; each serves one request
MaxBalance == 1      \* the seeded balance of the funded account, in cents
MaxIds     == 2      \* size of the space the random id suffix is drawn from
MaxClock   == 1      \* datetime.utcnow() takes the values 0..MaxClock

Workers    == 1..NumWorkers
Accounts   == {"ACC-001", "ACC-002"}           \* rows of the accounts table
AccountIds == Accounts \cup {"ACC-404"}        \* ids a request can name
Amounts    == {0 - 1, 0, 1}   \* data['amount'] in cents: negative, zero, positive
TxnIds     == 1..MaxIds

\* seed_accounts(): the balances the accounts table starts with
SeedBalance == [a \in Accounts |-> IF a = "ACC-001" THEN MaxBalance ELSE 0]

\* request.json: the first required field that is absent ("none": all there),
\* and the values of from_account, to_account and amount
required_fields == {"from_account", "to_account", "amount", "currency"}
NoRequest == [missing |-> "none", from_account |-> "ACC-404",
              to_account |-> "ACC-404", amount |-> 0]
Requests ==
  [missing : {"none"},
   from_account : AccountIds, to_account : AccountIds, amount : Amounts]
  \cup {[NoRequest EXCEPT !.missing = f] : f \in required_fields}

\* what Account.query.get returns: None, or the row with the balance read
NoAccount == [found |-> FALSE, balance |-> 0]

VARIABLES
  balance,      \* accounts.balance of every row, as committed
  log,          \* the transactions table, in insertion order
  clock,        \* datetime.utcnow()
  pc,           \* where each handler is: "idle", "read_to", "commit", "done"
  req,          \* the request each handler is serving, while it runs
  from_account, \* the row each handler read at trms.py:41, while it runs
  to_account,   \* the row each handler read at trms.py:42, while it runs
  result,       \* the response each handler gave
  ids_generated,\* uuid4() calls each handler made for its request
  listing       \* the last response of GET /transactions

vars == <<balance, log, clock, pc, req, from_account, to_account, result,
          ids_generated, listing>>

\* ----------------------------------------------------------- the tables

\* Account.query.get(id)
AccountGet(id) ==
  IF id \in Accounts THEN [found |-> TRUE, balance |-> balance[id]]
  ELSE NoAccount

\* Transaction.id is the primary key: an INSERT of a stored id fails
IdCollidesNever(id) == FALSE
IdCollides(id) == \E i \in 1..Len(log) : log[i].id = id

\* `from_account.balance < amount`, trms.py:52
InsufficientFundsOfTarget(src, dst, amount) == dst.balance < amount
InsufficientFunds(src, dst, amount) == src.balance < amount

\* trms.py:67-68 on the objects the handler loaded; both ids the same means one
\* object, debited and then credited.  The flush writes a balance column only
\* when its value differs from the value loaded.
NewBalances(w) ==
  LET src == req[w].from_account
      dst == req[w].to_account
      a   == req[w].amount
  IN  IF src = dst
      THEN IF (from_account[w].balance - a) + a # from_account[w].balance
           THEN [balance EXCEPT ![src] = (from_account[w].balance - a) + a]
           ELSE balance
      ELSE [balance EXCEPT
              ![src] = IF from_account[w].balance - a # from_account[w].balance
                       THEN from_account[w].balance - a ELSE @,
              ![dst] = IF to_account[w].balance + a # to_account[w].balance
                       THEN to_account[w].balance + a ELSE @]

\* Transaction(...), trms.py:56-64, with created_at defaulting to utcnow()
NewTransaction(w, id) ==
  [id |-> id, from_account |-> req[w].from_account,
   to_account |-> req[w].to_account, amount |-> req[w].amount,
   status |-> "Completed", created_at |-> clock]

\* ORDER BY created_at DESC: any arrangement of the rows in which created_at
\* never increases; SQL leaves the order of rows with equal keys open
OrderedByCreatedAtAsc(s) ==
  \A i, j \in 1..Len(s) : i < j => s[i].created_at <= s[j].created_at
OrderedByCreatedAtDesc(s) ==
  \A i, j \in 1..Len(s) : i < j => s[i].created_at >= s[j].created_at

Arrangements(s) ==
  LET n == Len(s)
      perms == {f \in [1..n -> 1..n] : \A i, j \in 1..n : i # j => f[i] # f[j]}
  IN  {[i \in 1..n |-> s[f[i]]] : f \in perms}

\* ----------------------------------------------------------------- Init
Init ==
  /\ balance = SeedBalance
  /\ log = <<>>
  /\ clock = 0
  /\ pc = [w \in Workers |-> "idle"]
  /\ req = [w \in Workers |-> NoRequest]
  /\ from_account = [w \in Workers |-> NoAccount]
  /\ to_account = [w \in Workers |-> NoAccount]
  /\ result = [w \in Workers |-> "none"]
  /\ ids_generated = [w \in Workers |-> 0]
  /\ listing = <<>>

\* -------------------------------------------------------------- actions

\* the handler returns: its request context and its session are dropped
Respond(w, res) ==
  /\ pc' = [pc EXCEPT ![w] = "done"]
  /\ result' = [result EXCEPT ![w] = res]
  /\ req' = [req EXCEPT ![w] = NoRequest]
  /\ from_account' = [from_account EXCEPT ![w] = NoAccount]
  /\ to_account' = [to_account EXCEPT ![w] = NoAccount]

\* create_transaction, trms.py:32-41: take the request, check the required
\* fields, read the source row
Begin(w, r) ==
  /\ pc[w] = "idle"
  /\ IF r.missing # "none"
     THEN Respond(w, "MissingField")
     ELSE /\ pc' = [pc EXCEPT ![w] = "read_to"]
          /\ req' = [req EXCEPT ![w] = r]
          /\ from_account' = [from_account EXCEPT ![w] = AccountGet(r.from_account)]
          /\ UNCHANGED <<to_account, result>>
  /\ UNCHANGED <<balance, log, clock, ids_generated, listing>>

\* create_transaction, trms.py:42-53: read the target row (the session's
\* identity map hands back the object already loaded when both ids are the
\* same), then the existence checks and the funds check
ReadTo(w) ==
  /\ pc[w] = "read_to"
  /\ LET to == IF req[w].to_account = req[w].from_account
               THEN from_account[w]
               ELSE AccountGet(req[w].to_account)
     IN  IF ~from_account[w].found THEN Respond(w, "SourceNotFound")
         ELSE IF ~to.found THEN Respond(w, "TargetNotFound")
         ELSE IF InsufficientFunds(from_account[w], to, req[w].amount)
              THEN Respond(w, "InsufficientFunds")
         ELSE /\ pc' = [pc EXCEPT ![w] = "commit"]
              /\ to_account' = [to_account EXCEPT ![w] = to]
              /\ UNCHANGED <<req, from_account, result>>
  /\ UNCHANGED <<balance, log, clock, ids_generated, listing>>

\* create_transaction, trms.py:56-73: build the record under a random id,
\* move the amount, and commit.  The commit is one database transaction: a
\* primary-key collision fails the INSERT, the balance updates are rolled
\* back with it and the exception leaves the handler (HTTP 500).
Commit(w) ==
  /\ pc[w] = "commit"
  /\ \E id \in TxnIds :
       /\ ids_generated' = [ids_generated EXCEPT ![w] = @ + 1]
       /\ IF IdCollides(id)
          THEN /\ Respond(w, "IntegrityError")
               /\ UNCHANGED <<balance, log>>
          ELSE /\ Respond(w, "Created")
               /\ balance' = NewBalances(w)
               /\ log' = Append(log, NewTransaction(w, id))
  /\ UNCHANGED <<clock, listing>>

\* the process dies inside create_transaction before the database has
\* committed: nothing of the session reaches the tables
Crash(w) ==
  /\ pc[w] \in {"read_to", "commit"}
  /\ Respond(w, "Crashed")
  /\ UNCHANGED <<balance, log, clock, ids_generated, listing>>

\* get_transactions, trms.py:75-79
GetTransactions ==
  /\ listing' \in {s \in Arrangements(log) : OrderedByCreatedAtDesc(s)}
  /\ UNCHANGED <<balance, log, clock, pc, req, from_account, to_account,
                 result, ids_generated>>

\* time passes
Tick ==
  /\ clock < MaxClock
  /\ clock' = clock + 1
  /\ UNCHANGED <<balance, log, pc, req, from_account, to_account, result,
                 ids_generated, listing>>

\* ------------------------------------------------------- specifications

\* the posting engine under concurrent requests of every shape
Next ==
  \/ \E w \in Workers, r \in Requests : Begin(w, r)
  \/ \E w \in Workers : ReadTo(w)
  \/ \E w \in Workers : Commit(w)
  \/ \E w \in Workers : Crash(w)

Spec == Init /\ [][Next]_vars

\* N concurrent transfers of the same amount out of the same account
BatchRequest == [missing |-> "none", from_account |-> "ACC-001",
                 to_account |-> "ACC-002", amount |-> 1]

BatchNext ==
  \/ \E w \in Workers : Begin(w, BatchRequest)
  \/ \E w \in Workers : ReadTo(w)
  \/ \E w \in Workers : Commit(w)
  \/ \E w \in Workers : Crash(w)
  \/ Tick

BatchSpec == Init /\ [][BatchNext]_vars

\* transfers between one pair of accounts, the clock, and the listing
ListRequests ==
  {r \in Requests : /\ r.missing = "none"
                    /\ r.from_account = "ACC-001"
                    /\ r.to_account = "ACC-002"}

ListNext ==
  \/ \E w \in Workers, r \in ListRequests : Begin(w, r)
  \/ \E w \in Workers : ReadTo(w)
  \/ \E w \in Workers : Commit(w)
  \/ Tick
  \/ GetTransactions

ListSpec == Init /\ [][ListNext]_vars

\* ---------------------------------------------------------------- claims

Succeeded == {w \in Workers : result[w] = "Created"}

\* the step in which handler w answers its request
Answers(w) == pc[w] \in {"read_to", "commit"} /\ pc'[w] = "done"

\* the step in which handler w commits a new Transaction
Posts(w) == pc[w] = "commit" /\ result'[w] = "Created"

RECURSIVE NetPosted(_, _)
\* what the first n records of the log credit to account a, less what they debit
NetPosted(a, n) ==
  IF n = 0 THEN 0
  ELSE NetPosted(a, n - 1)
       + (IF log[n].to_account = a THEN log[n].amount ELSE 0)
       - (IF log[n].from_account = a THEN log[n].amount ELSE 0)

\* C1: no committed account balance is ever negative.
C1_BalancesNonNegative == \A a \in Accounts : balance[a] >= 0

\* C2: a transfer that succeeds with amount a from X to Y leaves X exactly a
\* lower and Y exactly a higher than just before it, and no other balance
\* changes.
C2_ExactDebitAndCredit ==
  [][\A w \in Workers :
       Posts(w) =>
         /\ balance'[req[w].from_account]
              = balance[req[w].from_account] - req[w].amount
         /\ balance'[req[w].to_account]
              = balance[req[w].to_account] + req[w].amount
         /\ \A a \in Accounts \ {req[w].from_account, req[w].to_account} :
              balance'[a] = balance[a]]_vars

\* C3: a request whose from_account equals its to_account is rejected: it adds
\* no Transaction and changes no balance.
C3_SelfTransferRejected ==
  [][\A w \in Workers :
       (Answers(w) /\ req[w].from_account = req[w].to_account) =>
         /\ result'[w] # "Created"
         /\ log' = log
         /\ balance' = balance]_vars

\* C4: of N concurrent transfers of the same amount A > 0 out of account X
\* with balance B, N*A > B, exactly B \div A succeed and the others are
\* rejected for insufficient funds.
C4_ExactlyFloorSucceed ==
  (/\ \A w \in Workers : pc[w] = "done"
   /\ \A w \in Workers : result[w] \in {"Created", "InsufficientFunds"}
   /\ NumWorkers * BatchRequest.amount > SeedBalance[BatchRequest.from_account])
  => Cardinality(Succeeded)
       = SeedBalance[BatchRequest.from_account] \div BatchRequest.amount

C6_AmountsPositive == \A i \in 1..Len(log) : log[i].amount > 0

\* C7: posting is all-or-nothing in every committed state: the balances are
\* the seeded balances with the debit and the credit of every record of the
\* log applied, and of nothing else.
C7_PostingAllOrNothing ==
  \A a \in Accounts : balance[a] = SeedBalance[a] + NetPosted(a, Len(log))

\* C8: the answer is the error of the first failing check in the order
\* ids different, amount positive, source exists, target exists, funds
\* sufficient, and a rejected request changes nothing.
C8_Expected(r, src) ==
  IF r.from_account = r.to_account THEN "SelfTransfer"
  ELSE IF r.amount <= 0 THEN "InvalidAmount"
  ELSE IF ~src.found THEN "SourceNotFound"
  ELSE IF r.to_account \notin Accounts THEN "TargetNotFound"
  ELSE IF src.balance < r.amount THEN "InsufficientFunds"
  ELSE "Created"

C8_ValidationOrder ==
  [][\A w \in Workers :
       (Answers(w) /\ result'[w] \notin {"Crashed", "IntegrityError"}) =>
         /\ result'[w] = C8_Expected(req[w], from_account[w])
         /\ result'[w] # "Created" => (balance' = balance /\ log' = log)]_vars

\* C9 (as amended): a listing returns every persisted Transaction exactly
\* once, with created_at never increasing along it.
C9_ListingCompleteAndSorted ==
  [][listing' # listing =>
       /\ Len(listing') = Len(log)
       /\ \A i \in 1..Len(log) :
            Cardinality({k \in 1..Len(listing') : listing'[k] = log[i]}) = 1
       /\ \A k \in 1..Len(listing') - 1 :
            listing'[k].created_at >= listing'[k + 1].created_at]_vars

\* two records of one created_at, listed latest insertion first
C9_Witness ==
  /\ Len(listing) = 2
  /\ Len(log) = 2
  /\ listing[1].created_at = listing[2].created_at
  /\ listing[1] = log[2]
  /\ listing[2] = log[1]

\* C9 (as claimed): records of equal created_at are listed in the order of
\* their insertion.
C9_TiesInInsertionOrder ==
  \A k, m \in 1..Len(listing) :
    (k < m /\ listing[k].created_at = listing[m].created_at) =>
      \E i, j \in 1..Len(log) :
        i < j /\ log[i] = listing[k] /\ log[j] = listing[m]

UniqueIds(s) == \A i, j \in 1..Len(s) : i # j => s[i].id # s[j].id

====
